---- MODULE Spec2Model ----
(***************************************************************************)
(* Model of the Fordex on-chain order book (src/src/lib.rs): the binary    *)
(* codec of orders and instructions, the OrderBook state with its two      *)
(* collections, the best-buy / best-sell selection, and the instruction    *)
(* dispatcher with its three handlers.                                     *)
(*                                                                         *)
(* Representation.  A byte is a number in 0..255 and a buffer is a         *)
(* sequence of bytes (1-based here, 0-based in the source).  A u64 is kept *)
(* at its full width as four 16-bit limbs, least significant first, so     *)
(* that every 8-byte field decodes without leaving TLC's integers.  A      *)
(* Pubkey is its 32 bytes.  A Result is Ok(v), Err(e) or Panic, the last   *)
(* standing for the abort of the program by a failed bounds check.         *)
(***************************************************************************)
EXTENDS Integers, Sequences, FiniteSets, TLC

VARIABLES
    accounts,          \* the accounts handed to the program; accounts[1] holds the order-book state buffer
    instruction_data,  \* the instruction buffer of the last invocation
    result,            \* the ProgramResult of the last invocation
    return_data,       \* the output payload of the last invocation
    order_book,        \* the in-memory OrderBook of the last handler when it returned
    logged,            \* the order the last handler passed to msg!, as a sequence of 0 or 1 orders
    placed,            \* history: the orders of the PlaceOrder invocations that returned Ok, in order
    fn,                \* pure-function harness: the function applied, "none" before
    arg,               \* pure-function harness: its input
    ret                \* pure-function harness: what it returned

vars == <<accounts, instruction_data, result, return_data, order_book, logged,
          placed, fn, arg, ret>>

-----------------------------------------------------------------------------
(* Results *)

Ok(v) == [kind |-> "Ok", val |-> <<v>>, err |-> ""]
Err(e) == [kind |-> "Err", val |-> <<>>, err |-> e]
Panic == [kind |-> "Panic", val |-> <<>>, err |-> ""]
NotRun == [kind |-> "NotRun", val |-> <<>>, err |-> ""]

IsOk(r) == r.kind = "Ok"
IsErr(r) == r.kind = "Err"
Unwrap(r) == r.val[1]

-----------------------------------------------------------------------------
(* Primitive types *)

\* u64 from a small natural number (below 2^31), as limbs
U64(n) == <<n % 65536, n \div 65536, 0, 0>>

\* Ord for u64: compare from the most significant limb down
RECURSIVE U64LessFrom(_, _, _)
U64LessFrom(a, b, i) ==
    IF i = 0 THEN FALSE
    ELSE IF a[i] # b[i] THEN a[i] < b[i]
    ELSE U64LessFrom(a, b, i - 1)

U64Less(a, b) == U64LessFrom(a, b, 4)

\* u64::to_be_bytes, the most significant byte first
to_be_bytes(v) ==
    [i \in 1..8 |-> IF i % 2 = 1 THEN v[(10 - i) \div 2] \div 256
                                 ELSE v[(10 - i) \div 2] % 256]

\* u64::to_le_bytes
to_le_bytes(v) ==
    [i \in 1..8 |-> IF i % 2 = 1 THEN v[(i + 1) \div 2] % 256
                                 ELSE v[i \div 2] \div 256]

\* u64::from_le_bytes of an 8-byte array
from_le_bytes(b) == [j \in 1..4 |-> b[2 * j - 1] + 256 * b[2 * j]]

\* array_ref![data, offset, len]: the bounds-checked slice data[offset..offset+len]
InBounds(data, offset, len) == offset + len <= Len(data)
array_ref(data, offset, len) == SubSeq(data, offset + 1, offset + len)

\* data[k..]
SliceFrom(data, k) == SubSeq(data, k + 1, Len(data))

\* data.get(k)
Get(data, k) == IF k < Len(data) THEN <<data[k + 1]>> ELSE <<>>

-----------------------------------------------------------------------------
(* Order and its codec *)

OrderType == {"Buy", "Sell"}

\* order_type as u8
OrderTypeAsU8(t) == IF t = "Buy" THEN 0 ELSE 1

\* Order::pack writing the price before the amount
Order_pack_price_first(order) ==
    order.trader \o to_le_bytes(order.price) \o to_le_bytes(order.amount)
                 \o <<OrderTypeAsU8(order.order_type)>>

Order_pack(order) ==
    order.trader \o to_le_bytes(order.amount) \o to_le_bytes(order.price)
                 \o <<OrderTypeAsU8(order.order_type)>>

\* Order::unpack reading every type byte other than 0 as Sell
Order_unpack_defaulting(data) ==
    IF ~InBounds(data, 0, 32) THEN Panic
    ELSE IF ~InBounds(data, 32, 8) THEN Panic
    ELSE IF ~InBounds(data, 40, 8) THEN Panic
    ELSE LET trader == array_ref(data, 0, 32)
             amount == from_le_bytes(array_ref(data, 32, 8))
             price == from_le_bytes(array_ref(data, 40, 8))
             t == Get(data, 48)
         IN  IF t = <<>> THEN Err("InvalidAccountData")
             ELSE Ok([trader |-> trader, amount |-> amount, price |-> price,
                      order_type |-> IF t = <<0>> THEN "Buy" ELSE "Sell"])

Order_unpack(data) ==
    IF ~InBounds(data, 0, 32) THEN Panic
    ELSE IF ~InBounds(data, 32, 8) THEN Panic
    ELSE IF ~InBounds(data, 40, 8) THEN Panic
    ELSE LET trader == array_ref(data, 0, 32)
             amount == from_le_bytes(array_ref(data, 32, 8))
             price == from_le_bytes(array_ref(data, 40, 8))
             t == Get(data, 48)
         IN  IF t = <<0>> THEN
                 Ok([trader |-> trader, amount |-> amount, price |-> price,
                     order_type |-> "Buy"])
             ELSE IF t = <<1>> THEN
                 Ok([trader |-> trader, amount |-> amount, price |-> price,
                     order_type |-> "Sell"])
             ELSE Err("InvalidAccountData")

-----------------------------------------------------------------------------
(* OrderBookInstruction and its codec *)

PlaceOrder(order) == [tag |-> "PlaceOrder", order |-> <<order>>]
GetBestBuyOrder == [tag |-> "GetBestBuyOrder", order |-> <<>>]
GetBestSellOrder == [tag |-> "GetBestSellOrder", order |-> <<>>]

\* OrderBookInstruction::pack with the tags of the two queries exchanged
OrderBookInstruction_pack_swapped(instruction) ==
    IF instruction.tag = "PlaceOrder" THEN <<0>> \o Order_pack(instruction.order[1])
    ELSE IF instruction.tag = "GetBestBuyOrder" THEN <<2>>
    ELSE <<1>>

OrderBookInstruction_pack(instruction) ==
    IF instruction.tag = "PlaceOrder" THEN <<0>> \o Order_pack(instruction.order[1])
    ELSE IF instruction.tag = "GetBestBuyOrder" THEN <<1>>
    ELSE <<2>>

\* OrderBookInstruction::unpack refusing bytes after the instruction
OrderBookInstruction_unpack_exact(data) ==
    LET tag == Get(data, 0)
    IN  IF tag = <<>> THEN Err("InvalidInstructionData")
        ELSE IF tag = <<0>> THEN
            LET order == Order_unpack(SliceFrom(data, 1))
            IN  IF order.kind = "Panic" THEN Panic
                ELSE IF IsErr(order) \/ Len(data) # 50 THEN Err("InvalidInstructionData")
                ELSE Ok(PlaceOrder(Unwrap(order)))
        ELSE IF Len(data) # 1 THEN Err("InvalidInstructionData")
        ELSE IF tag = <<1>> THEN Ok(GetBestBuyOrder)
        ELSE IF tag = <<2>> THEN Ok(GetBestSellOrder)
        ELSE Err("InvalidInstructionData")

OrderBookInstruction_unpack(data) ==
    LET tag == Get(data, 0)
    IN  IF tag = <<>> THEN Err("InvalidInstructionData")
        ELSE IF tag = <<0>> THEN
            LET order == Order_unpack(SliceFrom(data, 1))
            IN  IF order.kind = "Panic" THEN Panic
                ELSE IF IsErr(order) THEN Err("InvalidInstructionData")
                ELSE Ok(PlaceOrder(Unwrap(order)))
        ELSE IF tag = <<1>> THEN Ok(GetBestBuyOrder)
        ELSE IF tag = <<2>> THEN Ok(GetBestSellOrder)
        ELSE Err("InvalidInstructionData")

-----------------------------------------------------------------------------
(* OrderBook: add_order and the selection of the best orders *)

OrderBookDefault == [buy_orders |-> <<>>, sell_orders |-> <<>>]

\* add_order with the two arms of the match exchanged
add_order_swapped(book, order) ==
    IF order.order_type = "Buy"
    THEN [book EXCEPT !.sell_orders = Append(@, order)]
    ELSE [book EXCEPT !.buy_orders = Append(@, order)]

add_order(book, order) ==
    IF order.order_type = "Buy"
    THEN [book EXCEPT !.buy_orders = Append(@, order)]
    ELSE [book EXCEPT !.sell_orders = Append(@, order)]

\* Iterator::max_by_key(|order| order.price): a left-to-right reduction that
\* keeps the running element only when its key is strictly Greater than the
\* next one's.  Yields the position of the element found, 0 on an empty
\* sequence.
RECURSIVE MaxReduce(_, _, _)
MaxReduce(orders, x, y) ==
    IF y > Len(orders) THEN x
    ELSE MaxReduce(orders,
                   IF U64Less(orders[y].price, orders[x].price) THEN x ELSE y,
                   y + 1)

max_by_key(orders) == IF orders = <<>> THEN 0 ELSE MaxReduce(orders, 1, 2)

\* Iterator::min_by_key(|order| order.price): the reduction replaces the
\* running element only when its key is strictly Greater than the next one's.
RECURSIVE MinReduce(_, _, _)
MinReduce(orders, x, y) ==
    IF y > Len(orders) THEN x
    ELSE MinReduce(orders,
                   IF U64Less(orders[y].price, orders[x].price) THEN y ELSE x,
                   y + 1)

\* min_by_key with the reduction of max_by_key turned round: the running
\* element is kept only when its key is strictly Less, so the last minimum wins
RECURSIVE MinReduceLast(_, _, _)
MinReduceLast(orders, x, y) ==
    IF y > Len(orders) THEN x
    ELSE MinReduceLast(orders,
                       IF U64Less(orders[x].price, orders[y].price) THEN x ELSE y,
                       y + 1)

min_by_key_last(orders) == IF orders = <<>> THEN 0 ELSE MinReduceLast(orders, 1, 2)

min_by_key(orders) == IF orders = <<>> THEN 0 ELSE MinReduce(orders, 1, 2)

\* Option<&Order> as the position of the referenced element in its
\* collection: <<>> is None, <<i>> is Some(&collection[i]) (1-based).
get_best_buy_order(book) ==
    IF max_by_key(book.buy_orders) = 0 THEN <<>>
    ELSE <<max_by_key(book.buy_orders)>>

get_best_sell_order(book) ==
    IF min_by_key(book.sell_orders) = 0 THEN <<>>
    ELSE <<min_by_key(book.sell_orders)>>

-----------------------------------------------------------------------------
(* The state buffer.  The source calls OrderBook::from_account_info and    *)
(* OrderBook::pack_into_account without defining them; they are modelled   *)
(* from the storage layout of the specification: the records of buy_orders *)
(* then those of sell_orders, each in the Order codec, framed by a count   *)
(* prefix of one byte per collection.                                      *)

RECURSIVE PackAll(_)
PackAll(orders) ==
    IF orders = <<>> THEN <<>>
    ELSE Order_pack(Head(orders)) \o PackAll(Tail(orders))

pack_into_account(book) ==
    <<Len(book.buy_orders), Len(book.sell_orders)>>
        \o PackAll(book.buy_orders) \o PackAll(book.sell_orders)

\* the k-th 49-byte record after the two count bytes
RecordAt(data, k) == Order_unpack(SubSeq(data, 2 + 49 * (k - 1) + 1, 2 + 49 * k))

from_account_info(data) ==
    IF Len(data) < 2 THEN Err("InvalidAccountData")
    ELSE LET nb == data[1]
             ns == data[2]
         IN  IF Len(data) # 2 + 49 * (nb + ns) THEN Err("InvalidAccountData")
             ELSE IF \E k \in 1..(nb + ns) : ~IsOk(RecordAt(data, k))
                  THEN Err("InvalidAccountData")
             ELSE Ok([buy_orders |-> [k \in 1..nb |-> Unwrap(RecordAt(data, k))],
                      sell_orders |-> [k \in 1..ns |-> Unwrap(RecordAt(data, nb + k))]])

\* next_account_info on a fresh iterator over accounts
next_account_info(accts) ==
    IF accts = <<>> THEN Err("NotEnoughAccountKeys") ELSE Ok(Head(accts))

-----------------------------------------------------------------------------
(* The handlers and the dispatcher.  Each yields the outcome of one        *)
(* invocation: its result, the accounts as it leaves them, its output      *)
(* payload, the OrderBook it held in memory and the order it logged.       *)

Outcome(res, accts, payload, book, log) ==
    [result |-> res, accounts |-> accts, return_data |-> payload,
     order_book |-> book, logged |-> log]

Failed(res, accts) == Outcome(res, accts, <<>>, OrderBookDefault, <<>>)

\* process_place_order starting from the default book when the state buffer
\* holds none, and storing the book back
process_place_order_defaulting(accts, order) ==
    LET order_book_info == next_account_info(accts)
    IN  IF ~IsOk(order_book_info) THEN Failed(order_book_info, accts)
        ELSE LET loaded == from_account_info(Unwrap(order_book_info))
                 book == add_order(IF IsOk(loaded) THEN Unwrap(loaded) ELSE OrderBookDefault,
                                   order)
             IN  Outcome(Ok("unit"), <<pack_into_account(book)>> \o Tail(accts), <<>>,
                         book, <<>>)

process_place_order(accts, order) ==
    LET order_book_info == next_account_info(accts)
    IN  IF ~IsOk(order_book_info) THEN Failed(order_book_info, accts)
        ELSE LET loaded == from_account_info(Unwrap(order_book_info))
             IN  IF ~IsOk(loaded) THEN Failed(loaded, accts)
                 ELSE Outcome(Ok("unit"), accts, <<>>,
                              add_order(Unwrap(loaded), order), <<>>)

\* process_get_best_buy_order taking the best order out of the book and
\* storing the book back
process_get_best_buy_order_taking(accts) ==
    LET order_book_info == next_account_info(accts)
    IN  IF ~IsOk(order_book_info) THEN Failed(order_book_info, accts)
        ELSE LET loaded == from_account_info(Unwrap(order_book_info))
             IN  IF ~IsOk(loaded) THEN Failed(loaded, accts)
                 ELSE LET book == Unwrap(loaded)
                          best_buy_order == get_best_buy_order(book)
                      IN  IF best_buy_order = <<>>
                          THEN Outcome(Err("InvalidAccountData"), accts, <<>>, book, <<>>)
                          ELSE LET i == best_buy_order[1]
                                   rest == [book EXCEPT !.buy_orders =
                                               SubSeq(@, 1, i - 1) \o SubSeq(@, i + 1, Len(@))]
                               IN  Outcome(Ok("unit"),
                                           <<pack_into_account(rest)>> \o Tail(accts),
                                           <<>>, rest, <<book.buy_orders[i]>>)

process_get_best_buy_order(accts) ==
    LET order_book_info == next_account_info(accts)
    IN  IF ~IsOk(order_book_info) THEN Failed(order_book_info, accts)
        ELSE LET loaded == from_account_info(Unwrap(order_book_info))
             IN  IF ~IsOk(loaded) THEN Failed(loaded, accts)
                 ELSE LET book == Unwrap(loaded)
                          best_buy_order == get_best_buy_order(book)
                      IN  IF best_buy_order = <<>>
                          THEN Outcome(Err("InvalidAccountData"), accts, <<>>, book, <<>>)
                          ELSE Outcome(Ok("unit"), accts, <<>>, book,
                                       <<book.buy_orders[best_buy_order[1]]>>)

process_get_best_sell(accts) ==
    LET order_book_info == next_account_info(accts)
    IN  IF ~IsOk(order_book_info) THEN Failed(order_book_info, accts)
        ELSE LET loaded == from_account_info(Unwrap(order_book_info))
             IN  IF ~IsOk(loaded) THEN Failed(loaded, accts)
                 ELSE LET book == Unwrap(loaded)
                          best_sell_order == get_best_sell_order(book)
                      IN  IF best_sell_order = <<>>
                          THEN Outcome(Err("InvalidAccountData"), accts, <<>>, book, <<>>)
                          ELSE Outcome(Ok("unit"), accts, <<>>, book,
                                       <<book.sell_orders[best_sell_order[1]]>>)

process_instruction(accts, data) ==
    IF data = <<>> THEN Failed(Err("InvalidInstructionData"), accts)
    ELSE LET instruction == OrderBookInstruction_unpack(data)
         IN  IF ~IsOk(instruction) THEN Failed(instruction, accts)
             ELSE IF Unwrap(instruction).tag = "PlaceOrder"
                  THEN process_place_order(accts, Unwrap(instruction).order[1])
             ELSE IF Unwrap(instruction).tag = "GetBestBuyOrder"
                  THEN process_get_best_buy_order(accts)
             ELSE process_get_best_sell(accts)

-----------------------------------------------------------------------------
(* Bounds and the inputs drawn from them *)

MaxPlaced == 2       \* successful PlaceOrder invocations recorded in a run
MaxHostOrders == 2   \* orders in a state buffer handed over by the host
MaxSelect == 4       \* orders in a collection given to the selection

SeqsUpTo(S, n) == UNION {[1..k -> S] : k \in 0..n}

T1 == [i \in 1..32 |-> i]
T2 == [i \in 1..32 |-> 100 + i]
Traders == {T1, T2}

\* <<amount, price>>
Quotes == {<<0, 0>>, <<100, 500>>}

OrdersOf(traders, quotes, types) ==
    {[trader |-> tr, amount |-> U64(q[1]), price |-> U64(q[2]), order_type |-> t] :
        tr \in traders, q \in quotes, t \in types}

OrderInputs == OrdersOf(Traders, Quotes, OrderType)

PlaceOrderInputs == {OrderBookInstruction_pack(PlaceOrder(o)) : o \in OrderInputs}

\* instruction buffers cut short: the tag alone, inside the trader, and at
\* and next to each field boundary of the order
TruncatedLens == {1, 2, 20, 32, 33, 40, 41, 48, 49}
TruncatedInputs == {SubSeq(d, 1, n) : d \in PlaceOrderInputs, n \in TruncatedLens}

\* a PlaceOrder buffer whose order-type byte is neither 0 nor 1
BadTypeInputs == {SubSeq(d, 1, 49) \o <<b>> : d \in PlaceOrderInputs, b \in {2, 255}}

\* well-formed instructions followed by one more byte
TrailingInputs == {d \o <<7>> : d \in PlaceOrderInputs \cup {<<1>>, <<2>>}}

UnknownTagInputs == {<<3>>, <<255>>, <<3>> \o Order_pack(CHOOSE o \in OrderInputs : TRUE)}

InstructionInputs ==
    PlaceOrderInputs \cup {<<1>>, <<2>>, <<>>} \cup TruncatedInputs
        \cup BadTypeInputs \cup TrailingInputs \cup UnknownTagInputs

\* state buffers of the host: the valid books of at most MaxHostOrders orders ...
HostBooks ==
    {[buy_orders |-> b, sell_orders |-> s] :
        <<b, s>> \in {bs \in SeqsUpTo(OrdersOf(Traders, Quotes, {"Buy"}), MaxHostOrders)
                              \X SeqsUpTo(OrdersOf(Traders, Quotes, {"Sell"}), MaxHostOrders) :
                          Len(bs[1]) + Len(bs[2]) <= MaxHostOrders}}

\* ... and buffers that hold no OrderBook: too short for the counts, counts
\* that disagree with the length, a record cut short, a record whose type
\* byte is no order type
CorruptBuffers ==
    LET o == [trader |-> T1, amount |-> U64(100), price |-> U64(500), order_type |-> "Buy"]
        one == pack_into_account(add_order(OrderBookDefault, o))
    IN  {<<>>, <<1>>, <<1, 0>>, <<0, 0, 0>>, SubSeq(one, 1, Len(one) - 1),
         SubSeq(one, 1, Len(one) - 1) \o <<9>>}

HostBuffers == {pack_into_account(b) : b \in HostBooks} \cup CorruptBuffers

-----------------------------------------------------------------------------
(* The program as a state machine: one action per kind of invocation *)

Decoded(d) == IF d = <<>> THEN Err("InvalidInstructionData") ELSE OrderBookInstruction_unpack(d)
DecodesTo(d, tag) == IsOk(Decoded(d)) /\ Unwrap(Decoded(d)).tag = tag

Idle ==
    /\ instruction_data = <<>>
    /\ result = NotRun
    /\ return_data = <<>>
    /\ order_book = OrderBookDefault
    /\ logged = <<>>
    /\ placed = <<>>

NoCall == fn = "none" /\ arg = <<>> /\ ret = <<>>

\* the order book account as the test sets it up: pack_into_account of the default book
Init ==
    /\ accounts = <<pack_into_account(OrderBookDefault)>>
    /\ Idle
    /\ NoCall

\* any state buffer the host may hand over, or no account at all
InitHost ==
    /\ accounts \in {<<>>} \cup {<<b>> : b \in HostBuffers}
    /\ Idle
    /\ NoCall

\* the instruction buffers by what the decoder makes of them
InputsDecodingTo(tag) == {d \in InstructionInputs : DecodesTo(d, tag)}
PlaceOrderBuffers == InputsDecodingTo("PlaceOrder")
GetBestBuyOrderBuffers == InputsDecodingTo("GetBestBuyOrder")
GetBestSellOrderBuffers == InputsDecodingTo("GetBestSellOrder")
RejectedBuffers == {d \in InstructionInputs : IsErr(Decoded(d))}
AbortedBuffers == {d \in InstructionInputs : Decoded(d) = Panic}

\* one invocation of the entrypoint on instruction buffer d; track says
\* whether the history of placed orders is kept
Invoke(d, track) ==
    \E out \in {process_instruction(accounts, d)} :
        /\ instruction_data' = d
        /\ accounts' = out.accounts
        /\ result' = out.result
        /\ return_data' = out.return_data
        /\ order_book' = out.order_book
        /\ logged' = out.logged
        /\ placed' = IF track /\ DecodesTo(d, "PlaceOrder") /\ IsOk(out.result)
                     THEN Append(placed, Unwrap(Decoded(d)).order[1])
                     ELSE placed
        /\ UNCHANGED <<fn, arg, ret>>

InvokePlaceOrder(track) ==
    /\ track => Len(placed) < MaxPlaced
    /\ \E d \in InstructionInputs : d \in PlaceOrderBuffers /\ Invoke(d, track)

InvokeGetBestBuyOrder(track) ==
    \E d \in InstructionInputs : d \in GetBestBuyOrderBuffers /\ Invoke(d, track)

InvokeGetBestSellOrder(track) ==
    \E d \in InstructionInputs : d \in GetBestSellOrderBuffers /\ Invoke(d, track)

\* an instruction buffer the decoder answers with an error
InvokeRejected(track) ==
    \E d \in InstructionInputs : d \in RejectedBuffers /\ Invoke(d, track)

\* an instruction buffer on which the decoder panics
InvokeAborted(track) ==
    \E d \in InstructionInputs : d \in AbortedBuffers /\ Invoke(d, track)

Next ==
    \/ InvokePlaceOrder(TRUE)
    \/ InvokeGetBestBuyOrder(TRUE)
    \/ InvokeGetBestSellOrder(TRUE)
    \/ InvokeRejected(TRUE)
    \/ InvokeAborted(TRUE)

Spec == Init /\ [][Next]_vars

NextHost ==
    \/ InvokePlaceOrder(FALSE)
    \/ InvokeGetBestBuyOrder(FALSE)
    \/ InvokeGetBestSellOrder(FALSE)
    \/ InvokeRejected(FALSE)
    \/ InvokeAborted(FALSE)

SpecHost == InitHost /\ [][NextHost]_vars

-----------------------------------------------------------------------------
(* The selection as pure functions of a book *)

SelectPrices == {300, 500, 700}

SelectOrders(t) ==
    {[trader |-> tr, amount |-> U64(100), price |-> U64(p), order_type |-> t] :
        tr \in Traders, p \in SelectPrices}

\* books with one collection filled, each member of the collection's type
SelectBooks ==
    {[buy_orders |-> b, sell_orders |-> <<>>] : b \in SeqsUpTo(SelectOrders("Buy"), MaxSelect)}
        \cup {[buy_orders |-> <<>>, sell_orders |-> s] :
                 s \in SeqsUpTo(SelectOrders("Sell"), MaxSelect)}

InitSelect ==
    /\ accounts = <<>>
    /\ Idle
    /\ fn = "none"
    /\ arg \in SelectBooks
    /\ ret = <<>>

Unmoved == UNCHANGED <<accounts, instruction_data, result, return_data, order_book,
                       logged, placed>>

CallGetBestBuyOrder ==
    /\ fn = "none"
    /\ fn' = "get_best_buy_order"
    /\ ret' = get_best_buy_order(arg)
    /\ UNCHANGED arg
    /\ Unmoved

CallGetBestSellOrder ==
    /\ fn = "none"
    /\ fn' = "get_best_sell_order"
    /\ ret' = get_best_sell_order(arg)
    /\ UNCHANGED arg
    /\ Unmoved

NextSelect == CallGetBestBuyOrder \/ CallGetBestSellOrder

SpecSelect == InitSelect /\ [][NextSelect]_vars

-----------------------------------------------------------------------------
(* The decoders as pure functions of a buffer *)

\* every prefix of an encoded order, encodings with a type byte that is no
\* order type, encodings followed by one more byte, and each of these behind
\* an instruction tag
OrderBuffers ==
    {SubSeq(Order_pack(o), 1, n) : o \in OrderInputs, n \in 0..49}
        \cup {SubSeq(Order_pack(o), 1, 48) \o <<b>> : o \in OrderInputs, b \in {2, 255}}
        \cup {Order_pack(o) \o <<7>> : o \in OrderInputs}

CodecBuffers == OrderBuffers \cup {<<0>> \o b : b \in OrderBuffers} \cup InstructionInputs

InitCodec ==
    /\ accounts = <<>>
    /\ Idle
    /\ fn = "none"
    /\ arg \in CodecBuffers
    /\ ret = <<>>

CallOrderUnpack ==
    /\ fn = "none"
    /\ fn' = "Order::unpack"
    /\ ret' = Order_unpack(arg)
    /\ UNCHANGED arg
    /\ Unmoved

CallInstructionUnpack ==
    /\ fn = "none"
    /\ fn' = "OrderBookInstruction::unpack"
    /\ ret' = OrderBookInstruction_unpack(arg)
    /\ UNCHANGED arg
    /\ Unmoved

NextCodec == CallOrderUnpack \/ CallInstructionUnpack

SpecCodec == InitCodec /\ [][NextCodec]_vars

-----------------------------------------------------------------------------
(* The encoders, and the decoders after them, as pure functions of a value *)

\* u64 values: zero, two small ones, one whose eight bytes all differ, and
\* 2^64 - 1
U64Max == <<65535, 65535, 65535, 65535>>
U64Bytes1To8 == <<513, 1027, 1541, 2055>>
U64Values == {U64(0), U64(100), U64(500), U64Bytes1To8, U64Max}

EncodeOrders ==
    {[trader |-> tr, amount |-> a, price |-> p, order_type |-> t] :
        tr \in Traders, a \in U64Values, p \in U64Values, t \in OrderType}

EncodeInstructions ==
    {PlaceOrder(o) : o \in EncodeOrders} \cup {GetBestBuyOrder, GetBestSellOrder}

InitEncode ==
    /\ accounts = <<>>
    /\ Idle
    /\ fn = "none"
    /\ arg \in EncodeInstructions
    /\ ret = <<>>

\* Order::pack of the order of a PlaceOrder instruction
CallOrderPack ==
    /\ fn = "none"
    /\ arg.tag = "PlaceOrder"
    /\ fn' = "Order::pack"
    /\ ret' = Order_pack(arg.order[1])
    /\ UNCHANGED arg
    /\ Unmoved

\* Order::unpack of Order::pack
CallOrderPackUnpack ==
    /\ fn = "none"
    /\ arg.tag = "PlaceOrder"
    /\ fn' = "Order::unpack(Order::pack)"
    /\ ret' = Order_unpack(Order_pack(arg.order[1]))
    /\ UNCHANGED arg
    /\ Unmoved

CallInstructionPack ==
    /\ fn = "none"
    /\ fn' = "OrderBookInstruction::pack"
    /\ ret' = OrderBookInstruction_pack(arg)
    /\ UNCHANGED arg
    /\ Unmoved

\* OrderBookInstruction::unpack of OrderBookInstruction::pack
CallInstructionPackUnpack ==
    /\ fn = "none"
    /\ fn' = "OrderBookInstruction::unpack(OrderBookInstruction::pack)"
    /\ ret' = OrderBookInstruction_unpack(OrderBookInstruction_pack(arg))
    /\ UNCHANGED arg
    /\ Unmoved

NextEncode ==
    \/ CallOrderPack
    \/ CallOrderPackUnpack
    \/ CallInstructionPack
    \/ CallInstructionPackUnpack

SpecEncode == InitEncode /\ [][NextEncode]_vars

-----------------------------------------------------------------------------
(* Claims *)

\* position i of orders holds the maximum (minimum) price of orders
IsMaxPrice(orders, i) == \A j \in DOMAIN orders : ~U64Less(orders[i].price, orders[j].price)
IsMinPrice(orders, i) == \A j \in DOMAIN orders : ~U64Less(orders[j].price, orders[i].price)
\* no earlier position holds the same price
IsFirstAtPrice(orders, i) == \A j \in 1..(i - 1) : orders[j].price # orders[i].price

\* C1: on a book whose buy_orders is not empty, get_best_buy_order returns a
\* member of buy_orders of maximum price, and among the members of that price
\* the one inserted first.
C1_BestBuyIsFirstMax ==
    (fn = "get_best_buy_order" /\ arg.buy_orders # <<>>) =>
        /\ ret # <<>>
        /\ ret[1] \in DOMAIN arg.buy_orders
        /\ IsMaxPrice(arg.buy_orders, ret[1])
        /\ IsFirstAtPrice(arg.buy_orders, ret[1])

\* C2: on a book whose sell_orders is not empty, get_best_sell_order returns
\* a member of sell_orders of minimum price, and among the members of that
\* price the one inserted first.
C2_BestSellIsFirstMin ==
    (fn = "get_best_sell_order" /\ arg.sell_orders # <<>>) =>
        /\ ret # <<>>
        /\ ret[1] \in DOMAIN arg.sell_orders
        /\ IsMinPrice(arg.sell_orders, ret[1])
        /\ IsFirstAtPrice(arg.sell_orders, ret[1])

\* the selection has run on four sell orders of which the second and the
\* third share the minimum price, and returned the second
C2_Witness ==
    /\ fn = "get_best_sell_order"
    /\ Len(arg.sell_orders) = 4
    /\ arg.sell_orders[2].price = U64(300)
    /\ arg.sell_orders[3].price = U64(300)
    /\ arg.sell_orders[2] # arg.sell_orders[3]
    /\ arg.sell_orders[1].price = U64(500)
    /\ arg.sell_orders[4].price = U64(700)
    /\ ret = <<2>>

\* the OrderBook a state buffer holds, when it holds one
HoldsBook(accts) == accts # <<>> /\ IsOk(from_account_info(accts[1]))
BookOf(accts) == Unwrap(from_account_info(accts[1]))

IsBuy(o) == o.order_type = "Buy"
IsSell(o) == o.order_type = "Sell"

\* the best of a non-empty sequence of orders as the claims define it: the
\* first of those at the maximum (minimum) price
FirstMax(orders) ==
    orders[CHOOSE i \in DOMAIN orders : IsMaxPrice(orders, i) /\ IsFirstAtPrice(orders, i)]
FirstMin(orders) ==
    orders[CHOOSE i \in DOMAIN orders : IsMinPrice(orders, i) /\ IsFirstAtPrice(orders, i)]

\* C3: from the empty book, once a Buy order has been placed successfully, a
\* GetBestBuyOrder invocation succeeds and its output payload is the encoding
\* of the best of the Buy orders placed so far; the same for GetBestSellOrder
\* and the Sell orders placed so far.
C3_QueryReturnsBestPlaced ==
    /\ (DecodesTo(instruction_data, "GetBestBuyOrder") /\ SelectSeq(placed, IsBuy) # <<>>) =>
           /\ IsOk(result)
           /\ return_data = Order_pack(FirstMax(SelectSeq(placed, IsBuy)))
    /\ (DecodesTo(instruction_data, "GetBestSellOrder") /\ SelectSeq(placed, IsSell) # <<>>) =>
           /\ IsOk(result)
           /\ return_data = Order_pack(FirstMin(SelectSeq(placed, IsSell)))

TypedBook(book) ==
    /\ \A i \in DOMAIN book.buy_orders : book.buy_orders[i].order_type = "Buy"
    /\ \A i \in DOMAIN book.sell_orders : book.sell_orders[i].order_type = "Sell"

\* C4: from the empty book, every member of buy_orders is a Buy order and
\* every member of sell_orders is a Sell order, in the book a handler holds
\* in memory and in the book the state buffer holds.
C4_CollectionsAreTyped ==
    /\ TypedBook(order_book)
    /\ HoldsBook(accounts) => TypedBook(BookOf(accounts))

\* PlaceOrder of a Sell order has returned Ok after add_order filed it, a
\* Buy order having been placed before
C4_Witness ==
    /\ DecodesTo(instruction_data, "PlaceOrder")
    /\ IsOk(result)
    /\ Len(order_book.sell_orders) = 1
    /\ Len(placed) = 2
    /\ placed[1].order_type = "Buy"
    /\ placed[2] = order_book.sell_orders[1]

IsQuery(d) == DecodesTo(d, "GetBestBuyOrder") \/ DecodesTo(d, "GetBestSellOrder")

\* C5: a GetBestBuyOrder or GetBestSellOrder invocation leaves the accounts,
\* and with them the state buffer, as they were; and when it follows an
\* invocation of the same query, it ends with the same result, the same
\* output payload and the same logged order.
C5_QueriesReadOnly ==
    [][IsQuery(instruction_data') =>
           /\ accounts' = accounts
           /\ Decoded(instruction_data') = Decoded(instruction_data) =>
                  /\ result' = result
                  /\ return_data' = return_data
                  /\ logged' = logged]_vars

\* a GetBestBuyOrder invocation given with a trailing byte has just
\* succeeded on a book of two buy orders
C5_Witness ==
    /\ instruction_data = <<1, 7>>
    /\ IsOk(result)
    /\ HoldsBook(accounts)
    /\ Len(BookOf(accounts).buy_orders) = 2
    /\ logged # <<>>

\* the order a selection refers to, as a sequence of 0 or 1 orders
Selected(orders, sel) == IF sel = <<>> THEN <<>> ELSE <<orders[sel[1]]>>

\* C6: a successful PlaceOrder of a Sell order changes the outcome of
\* GetBestBuyOrder neither on the state buffer nor on the book the handler
\* holds in memory, and a successful PlaceOrder of a Buy order does not
\* change the outcome of GetBestSellOrder.
C6_CollectionsIndependent ==
    [][(DecodesTo(instruction_data', "PlaceOrder") /\ IsOk(result')) =>
           LET o == Unwrap(Decoded(instruction_data')).order[1]
               before == BookOf(accounts)
           IN  /\ o.order_type = "Sell" =>
                      /\ process_get_best_buy_order(accounts')
                             = process_get_best_buy_order(accounts)
                      /\ Selected(order_book'.buy_orders, get_best_buy_order(order_book'))
                             = Selected(before.buy_orders, get_best_buy_order(before))
               /\ o.order_type = "Buy" =>
                      /\ process_get_best_sell(accounts')
                             = process_get_best_sell(accounts)
                      /\ Selected(order_book'.sell_orders, get_best_sell_order(order_book'))
                             = Selected(before.sell_orders, get_best_sell_order(before))]_vars

\* a Sell order has just been placed successfully on a book that holds a
\* Buy order
C6_Witness ==
    /\ DecodesTo(instruction_data, "PlaceOrder")
    /\ Unwrap(Decoded(instruction_data)).order[1].order_type = "Sell"
    /\ IsOk(result)
    /\ Len(order_book.buy_orders) = 1
    /\ Len(order_book.sell_orders) = 2

IsPrefix(a, b) == Len(a) <= Len(b) /\ SubSeq(b, 1, Len(a)) = a

\* C7: a successful PlaceOrder(o) appends exactly o at the end of the
\* collection of o's type in the book of the state buffer and leaves the
\* other collection as it was; and every step leaves each collection of an
\* earlier state a prefix of the same collection afterwards.
C7_PlaceOrderAppends ==
    [][/\ (HoldsBook(accounts) /\ HoldsBook(accounts')) =>
              /\ IsPrefix(BookOf(accounts).buy_orders, BookOf(accounts').buy_orders)
              /\ IsPrefix(BookOf(accounts).sell_orders, BookOf(accounts').sell_orders)
       /\ (DecodesTo(instruction_data', "PlaceOrder") /\ IsOk(result')) =>
              LET o == Unwrap(Decoded(instruction_data')).order[1]
              IN  /\ HoldsBook(accounts')
                  /\ o.order_type = "Buy" =>
                         /\ BookOf(accounts').buy_orders = Append(BookOf(accounts).buy_orders, o)
                         /\ BookOf(accounts').sell_orders = BookOf(accounts).sell_orders
                  /\ o.order_type = "Sell" =>
                         /\ BookOf(accounts').sell_orders = Append(BookOf(accounts).sell_orders, o)
                         /\ BookOf(accounts').buy_orders = BookOf(accounts).buy_orders]_vars

\* C8: on a state buffer that holds a book, GetBestBuyOrder ends with
\* NoOrdersAvailable exactly when buy_orders is empty and otherwise succeeds
\* with the encoding of the selected order as output payload (the same for
\* GetBestSellOrder and sell_orders); NoOrdersAvailable is neither the
\* outcome of malformed instruction data nor that of an invalid state buffer.
C8_QueryOutcome ==
    /\ (HoldsBook(accounts) /\ DecodesTo(instruction_data, "GetBestBuyOrder")) =>
           LET book == BookOf(accounts)
           IN  IF book.buy_orders = <<>>
               THEN /\ result = Err("NoOrdersAvailable")
                    /\ result \notin {Err("InvalidInstructionData"), Err("InvalidAccountData")}
               ELSE /\ IsOk(result)
                    /\ return_data = Order_pack(book.buy_orders[get_best_buy_order(book)[1]])
    /\ (HoldsBook(accounts) /\ DecodesTo(instruction_data, "GetBestSellOrder")) =>
           LET book == BookOf(accounts)
           IN  IF book.sell_orders = <<>>
               THEN /\ result = Err("NoOrdersAvailable")
                    /\ result \notin {Err("InvalidInstructionData"), Err("InvalidAccountData")}
               ELSE /\ IsOk(result)
                    /\ return_data = Order_pack(book.sell_orders[get_best_sell_order(book)[1]])

\* what the claims call a valid order encoding: at least 49 bytes, the byte
\* at offset 48 being 0 or 1
ValidOrderEncoding(b) == Len(b) >= 49 /\ b[49] \in {0, 1}

Malformed(d) ==
    \/ d = <<>>
    \/ d[1] \notin {0, 1, 2}
    \/ d[1] = 0 /\ ~ValidOrderEncoding(SliceFrom(d, 1))

\* C9: an invocation whose instruction buffer is empty, or starts with a
\* byte outside {0,1,2}, or starts with 0 followed by no valid order
\* encoding, ends with InvalidInstructionData, produces no output and leaves
\* the accounts as they were, whatever the state buffer holds.
C9_MalformedRejected ==
    [][Malformed(instruction_data') =>
           /\ result' = Err("InvalidInstructionData")
           /\ return_data' = <<>>
           /\ accounts' = accounts]_vars

\* C10: Order::unpack on a buffer of fewer than 49 bytes returns an error
\* value, and so does OrderBookInstruction::unpack on a buffer of 1 to 49
\* bytes whose first byte is 0.
C10_ShortBufferIsError ==
    /\ (fn = "Order::unpack" /\ Len(arg) < 49) => IsErr(ret)
    /\ (fn = "OrderBookInstruction::unpack" /\ Len(arg) \in 1..49 /\ arg[1] = 0) => IsErr(ret)

\* C11: Order::unpack on a buffer of at least 49 bytes whose byte at offset
\* 48 is neither 0 nor 1 returns an error and no order; an order it returns
\* is Buy only for byte 0 and Sell only for byte 1.
C11_TypeByteDecides ==
    (fn = "Order::unpack" /\ Len(arg) >= 49) =>
        /\ arg[49] \notin {0, 1} => IsErr(ret)
        /\ arg[49] = 0 => (IsOk(ret) /\ Unwrap(ret).order_type = "Buy")
        /\ arg[49] = 1 => (IsOk(ret) /\ Unwrap(ret).order_type = "Sell")

\* Order::unpack has run on a full-length buffer whose type byte is 255 and
\* returned an error
C11_Witness ==
    /\ fn = "Order::unpack"
    /\ Len(arg) = 49
    /\ arg[49] = 255
    /\ IsErr(ret)

\* C12: for every order, Order::unpack of its Order::pack succeeds and
\* returns that order.
C12_OrderRoundTrip ==
    fn = "Order::unpack(Order::pack)" => ret = Ok(arg.order[1])

\* the round trip has run on a Sell order of amount 2^64 - 1 and price 0
C12_Witness ==
    /\ fn = "Order::unpack(Order::pack)"
    /\ arg.order[1].amount = U64Max
    /\ arg.order[1].price = U64(0)
    /\ arg.order[1].order_type = "Sell"
    /\ IsOk(ret)
    /\ Unwrap(ret).amount = U64Max

\* C13: for every instruction, OrderBookInstruction::unpack of its
\* OrderBookInstruction::pack succeeds and returns that instruction.
C13_InstructionRoundTrip ==
    fn = "OrderBookInstruction::unpack(OrderBookInstruction::pack)" => ret = Ok(arg)

\* the round trip has run on GetBestSellOrder
C13_Witness ==
    /\ fn = "OrderBookInstruction::unpack(OrderBookInstruction::pack)"
    /\ arg = GetBestSellOrder
    /\ ret = Ok(GetBestSellOrder)

\* a state buffer is there and holds no OrderBook
Corrupted(accts) == accts # <<>> /\ ~IsOk(from_account_info(accts[1]))

\* C14 as stated: while the state buffer is corrupted, every invocation,
\* whatever its instruction data, ends with InvalidAccountData and leaves the
\* buffer as it was.  Invocations that abort are left aside here, so that a
\* violation is an invocation that returned another error.
C14_EveryInvocationInvalidAccountData ==
    [][(Corrupted(accounts) /\ result'.kind # "Panic") =>
           /\ result' = Err("InvalidAccountData")
           /\ accounts' = accounts]_vars

\* C14, amended: while the state buffer is corrupted, every invocation whose
\* instruction data decodes to an instruction ends with InvalidAccountData
\* and no output, and every invocation leaves the buffer as it was, so that
\* it stays corrupted.
C14_CorruptedStaysCorrupted ==
    [][Corrupted(accounts) =>
           /\ accounts' = accounts
           /\ Corrupted(accounts')
           /\ IsOk(Decoded(instruction_data')) =>
                  /\ result' = Err("InvalidAccountData")
                  /\ return_data' = <<>>]_vars

\* on a corrupted buffer, a PlaceOrder after an earlier invocation has ended
\* with InvalidAccountData
C14_Witness ==
    /\ Corrupted(accounts)
    /\ DecodesTo(instruction_data, "PlaceOrder")
    /\ result = Err("InvalidAccountData")

\* eight bytes b are the little-endian form of u64 v: each pair of bytes,
\* low byte first, makes up one 16-bit limb of v, low limb first
IsLittleEndianOf(b, v) ==
    /\ Len(b) = 8
    /\ \A k \in 1..8 : b[k] \in 0..255
    /\ \A j \in 1..4 : b[2 * j - 1] + 256 * b[2 * j] = v[j]

\* bytes are laid out as the encoding of order o
IsOrderLayout(bytes, o) ==
    /\ Len(bytes) = 49
    /\ SubSeq(bytes, 1, 32) = o.trader
    /\ IsLittleEndianOf(SubSeq(bytes, 33, 40), o.amount)
    /\ IsLittleEndianOf(SubSeq(bytes, 41, 48), o.price)
    /\ o.order_type = "Buy" => bytes[49] = 0
    /\ o.order_type = "Sell" => bytes[49] = 1

\* C15: Order::pack yields 49 bytes: the trader at offsets 0..31, the amount
\* little-endian at 32..39, the price little-endian at 40..47, the type byte
\* (0 Buy, 1 Sell) at 48, and no two orders have the same encoding;
\* OrderBookInstruction::pack yields the byte 1 for GetBestBuyOrder, the byte
\* 2 for GetBestSellOrder, and for PlaceOrder 50 bytes: 0, then the 49 bytes
\* of the order.
C15_EncodingLayout ==
    /\ fn = "Order::pack" =>
           /\ IsOrderLayout(ret, arg.order[1])
           /\ \A o \in EncodeOrders : Order_pack(o) = ret => o = arg.order[1]
    /\ fn = "OrderBookInstruction::pack" =>
           /\ arg = GetBestBuyOrder => ret = <<1>>
           /\ arg = GetBestSellOrder => ret = <<2>>
           /\ arg.tag = "PlaceOrder" =>
                  /\ Len(ret) = 50
                  /\ ret[1] = 0
                  /\ IsOrderLayout(Tail(ret), arg.order[1])

\* Order::pack has run on a Sell order whose amount has the bytes 1 to 8 and
\* whose price is 500, and yielded them at offsets 32 and 40
C15_Witness ==
    /\ fn = "Order::pack"
    /\ arg.order[1].trader = T2
    /\ arg.order[1].amount = U64Bytes1To8
    /\ arg.order[1].price = U64(500)
    /\ arg.order[1].order_type = "Sell"
    /\ SubSeq(ret, 1, 32) = T2
    /\ SubSeq(ret, 33, 40) = <<1, 2, 3, 4, 5, 6, 7, 8>>
    /\ SubSeq(ret, 41, 48) = <<244, 1, 0, 0, 0, 0, 0, 0>>
    /\ ret[49] = 1

\* the collection of book that orders of o's type go to, and the number of
\* its entries equal to o
SideOf(book, o) == IF o.order_type = "Buy" THEN book.buy_orders ELSE book.sell_orders
Occurrences(orders, o) == Cardinality({i \in DOMAIN orders : orders[i] = o})

\* C16: on a state buffer that holds a book, PlaceOrder(o) succeeds whatever
\* the amount and the price of o, zero included, and when the book already
\* holds an entry equal to o it holds one more of them afterwards.
C16_PlaceOrderAcceptsAll ==
    [][(HoldsBook(accounts) /\ DecodesTo(instruction_data', "PlaceOrder")) =>
           LET o == Unwrap(Decoded(instruction_data')).order[1]
           IN  /\ IsOk(result')
               /\ HoldsBook(accounts')
               /\ Occurrences(SideOf(BookOf(accounts), o), o) >= 1 =>
                      Occurrences(SideOf(BookOf(accounts'), o), o)
                          = Occurrences(SideOf(BookOf(accounts), o), o) + 1]_vars

\* C17: OrderBookInstruction::unpack reads the leading bytes only: a buffer
\* starting with 1 decodes to GetBestBuyOrder and one starting with 2 to
\* GetBestSellOrder whatever follows, and a buffer of 50 bytes or more
\* starting with 0 whose byte at offset 49 is 0 or 1 decodes to the
\* PlaceOrder that its first 50 bytes encode.
C17_TrailingBytesIgnored ==
    (fn = "OrderBookInstruction::unpack" /\ arg # <<>>) =>
        /\ arg[1] = 1 => ret = Ok(GetBestBuyOrder)
        /\ arg[1] = 2 => ret = Ok(GetBestSellOrder)
        /\ (arg[1] = 0 /\ Len(arg) >= 50 /\ arg[50] \in {0, 1}) =>
               /\ IsOk(ret)
               /\ Unwrap(ret).tag = "PlaceOrder"
               /\ OrderBookInstruction_pack(Unwrap(ret)) = SubSeq(arg, 1, 50)
               /\ IsOrderLayout(SubSeq(arg, 2, 50), Unwrap(ret).order[1])

\* OrderBookInstruction::unpack has run on 51 bytes, a PlaceOrder followed
\* by one more byte, and returned the PlaceOrder of the first 50
C17_Witness ==
    /\ fn = "OrderBookInstruction::unpack"
    /\ Len(arg) = 51
    /\ arg[1] = 0
    /\ IsOk(ret)
    /\ OrderBookInstruction_pack(Unwrap(ret)) = SubSeq(arg, 1, 50)
    /\ OrderBookInstruction_pack(Unwrap(ret)) # arg

====
